---- MODULE Spec2Model ----
(***************************************************************************)
(* Persistent telemetry-parameter store of flight_code/flight/telem.cc:    *)
(* the EEPROM record (header ++ floats ++ Fletcher-16), its load /         *)
(* initialise / recover sequence in TelemInit and the single-parameter     *)
(* update-and-rewrite in TelemUpdate.                                      *)
(***************************************************************************)
EXTENDS Integers, Naturals, Sequences, FiniteSets, TLC

(* ---------------------------- bounds ----------------------------------- *)
\* number of telemetry parameters (NUM_TELEM_PARAMS of global_defs.h), scaled down
NUM_TELEM_PARAMS == 2
\* how far below zero the index reported by the link may go
NegIdx == 2

(* ------------------------- program constants --------------------------- *)
PARAM_STORE_HEADER == <<66, 70, 83>>
HeaderLen == Len(PARAM_STORE_HEADER)
FloatSize == 4
ChkSize == 2
DataLen == HeaderLen + NUM_TELEM_PARAMS * FloatSize
PARAM_STORE_SIZE == DataLen + ChkSize
\* the device is larger than the record: the bytes an index of
\* NUM_TELEM_PARAMS reaches lie behind the record
EepromLen == HeaderLen + (NUM_TELEM_PARAMS + 1) * FloatSize

Byte == 0..255
\* float bit patterns used as parameter values: 0.0f, 3.5f, and a pattern
\* with an 0xFF byte and distinct bytes in every position (sign bit clear,
\* so that the 32-bit pattern is a non-negative integer here)
Vals == {0, 1080033280, 16909311}
Params == 0..(NUM_TELEM_PARAMS - 1)
ArrSet == [Params -> Vals]
ZeroArr == [i \in Params |-> 0]
\* contents of the caller's array before TelemInit runs
StartArrs == {[i \in Params |-> v] : v \in Vals}

(* ------------------------- pure helpers -------------------------------- *)
Pow2(k) == 2 ^ k

\* object representation of a float as memcpy sees it (little-endian core)
FloatBytes(v) == [k \in 0..(FloatSize - 1) |-> (v \div (256 ^ k)) % 256]

\* the float whose object representation starts at buf[off]
BytesFloat(buf, off) ==
  buf[off] + 256 * buf[off + 1] + 65536 * buf[off + 2] + 16777216 * buf[off + 3]

\* variant of MemcpyFloat: one byte too few is copied
MemcpyFloatShort(buf, off, v) ==
  [i \in DOMAIN buf |->
     IF i >= off /\ i < off + FloatSize - 1 THEN FloatBytes(v)[i - off] ELSE buf[i]]

\* memcpy(buf + off, &v, sizeof(float)) restricted to the bytes inside buf
MemcpyFloat(buf, off, v) ==
  [i \in DOMAIN buf |->
     IF i >= off /\ i < off + FloatSize THEN FloatBytes(v)[i - off] ELSE buf[i]]

\* memcpy(ptr->param.data(), param_buf + sizeof(header), N * sizeof(float))
DecodeParams(buf) == [i \in Params |-> BytesFloat(buf, HeaderLen + i * FloatSize)]

\* the loop of bfs::Fletcher16::Compute: sum0 = (sum0 + data[i]) % 0xFF,
\* sum1 = (sum1 + sum0) % 0xFF
RECURSIVE FletcherLoop(_, _, _, _, _)
FletcherLoop(buf, i, n, sum0, sum1) ==
  IF i = n THEN sum1 * 256 + sum0
  ELSE LET s0 == (sum0 + buf[i]) % 255
       IN  FletcherLoop(buf, i + 1, n, s0, (sum1 + s0) % 255)

\* bfs::Fletcher16::Compute(data, len)
Fletcher16(buf, n) == FletcherLoop(buf, 0, n, 0, 0)

\* variant of ChkComputed: the length passed to Compute is one byte short
ChkComputedShort(buf) == Fletcher16(buf, DataLen - 1)

\* chk_computed = param_checksum.Compute(param_buf, header + params)
ChkComputed(buf) == Fletcher16(buf, DataLen)

\* chk_read = chk_buf[0] << 8 | chk_buf[1]
ChkRead(buf) == (buf[PARAM_STORE_SIZE - 2] * 256 + buf[PARAM_STORE_SIZE - 1]) % 65536

\* variant of ChkBuf: the low byte is put first
ChkBufLowFirst(chk) == <<chk % 256, (chk \div 256) % 256>>

\* chk_buf[0] = static_cast<uint8_t>(chk_computed >> 8);
\* chk_buf[1] = static_cast<uint8_t>(chk_computed)
ChkBuf(chk) == <<(chk \div 256) % 256, chk % 256>>

\* the checksum of the image is computed and its two bytes stored at the tail
StoreChecksum(buf) ==
  LET chk_buf == ChkBuf(ChkComputed(buf))
  IN  [buf EXCEPT ![PARAM_STORE_SIZE - 2] = chk_buf[1],
                  ![PARAM_STORE_SIZE - 1] = chk_buf[2]]

\* the header test of TelemInit
HeaderMismatch(buf) ==
  \/ buf[0] # PARAM_STORE_HEADER[1]
  \/ buf[1] # PARAM_STORE_HEADER[2]
  \/ buf[2] # PARAM_STORE_HEADER[3]

\* for (i < PARAM_STORE_SIZE) param_buf[i] = EEPROM.read(i)
LoadBuf(dev) == [i \in 0..(PARAM_STORE_SIZE - 1) |-> dev[i]]

\* which of the three branches of TelemInit runs on the image read
LoadClass(buf) ==
  IF HeaderMismatch(buf) THEN "Uninitialized"
  ELSE IF ChkComputed(buf) # ChkRead(buf) THEN "Corrupted"
  ELSE "Valid"

\* variant of ResetBuf: the parameter bytes are not zeroed
ResetBufKeepsParams(buf) ==
  StoreChecksum([i \in DOMAIN buf |->
                   IF i < HeaderLen THEN PARAM_STORE_HEADER[i + 1] ELSE buf[i]])

\* set the header, zero the parameters, store the checksum
ResetBuf(buf) ==
  StoreChecksum([i \in DOMAIN buf |->
                   IF i < HeaderLen THEN PARAM_STORE_HEADER[i + 1]
                   ELSE IF i < DataLen THEN 0
                   ELSE buf[i]])

\* for (i < PARAM_STORE_SIZE) EEPROM.write(i, param_buf[i])
FullWrites(buf) == [k \in 1..PARAM_STORE_SIZE |-> <<k - 1, buf[k - 1]>>]

RECURSIVE ApplyWrites(_, _)
ApplyWrites(dev, ws) ==
  IF ws = <<>> THEN dev
  ELSE ApplyWrites([dev EXCEPT ![Head(ws)[1]] = Head(ws)[2]], Tail(ws))

\* param_buf after TelemInit
InitImage(buf) == IF LoadClass(buf) = "Valid" THEN buf ELSE ResetBuf(buf)

\* variant of InitWrites: the image is written back on every branch
InitWritesAlways(buf) == FullWrites(InitImage(buf))

\* the EEPROM.write calls of TelemInit
InitWrites(buf) ==
  IF LoadClass(buf) = "Valid" THEN <<>> ELSE FullWrites(ResetBuf(buf))

\* MsgInfo / MsgWarning calls of TelemInit
InitMsgs(buf) ==
  IF LoadClass(buf) = "Uninitialized" THEN <<"InfoNotInitialized", "InfoDone">>
  ELSE IF LoadClass(buf) = "Corrupted" THEN <<"WarningCorrupted", "InfoDone">>
  ELSE <<>>

\* ptr->param after TelemInit: only the valid branch copies into it
InitParam(buf, arr) == IF LoadClass(buf) = "Valid" THEN DecodeParams(buf) ELSE arr

\* variant of UpdateWrites: the two checksum bytes are not written
UpdateWritesNoChk(buf, idx, oob) ==
  [k \in 1..FloatSize |->
     LET addr == (k - 1) + HeaderLen + idx * FloatSize
     IN  <<addr, IF addr < PARAM_STORE_SIZE THEN buf[addr]
                 ELSE oob[addr - PARAM_STORE_SIZE]>>]

\* variant of UpdateWrites: the whole record is rewritten
UpdateWritesFull(buf, idx, oob) == FullWrites(buf)

\* variant of UpdateWrites: the checksum bytes are written before the value
UpdateWritesChkFirst(buf, idx, oob) ==
  [k \in 1..(FloatSize + ChkSize) |->
     IF k > ChkSize
     THEN LET addr == (k - ChkSize - 1) + HeaderLen + idx * FloatSize
          IN  <<addr, IF addr < PARAM_STORE_SIZE THEN buf[addr]
                      ELSE oob[addr - PARAM_STORE_SIZE]>>
     ELSE LET addr == PARAM_STORE_SIZE - ChkSize + (k - 1)
          IN  <<addr, buf[addr]>>]

\* variant of UpdateWrites: the value loop stops one byte early
UpdateWritesThree(buf, idx, oob) ==
  [k \in 1..(FloatSize - 1 + ChkSize) |->
     IF k <= FloatSize - 1
     THEN LET addr == (k - 1) + HeaderLen + idx * FloatSize
          IN  <<addr, IF addr < PARAM_STORE_SIZE THEN buf[addr]
                      ELSE oob[addr - PARAM_STORE_SIZE]>>
     ELSE LET addr == PARAM_STORE_SIZE - ChkSize + (k - FloatSize)
          IN  <<addr, buf[addr]>>]

\* the EEPROM.write calls of the parameter branch of TelemUpdate; oob gives
\* the values read behind the end of param_buf
UpdateWrites(buf, idx, oob) ==
  [k \in 1..(FloatSize + ChkSize) |->
     IF k <= FloatSize
     THEN LET addr == (k - 1) + HeaderLen + idx * FloatSize
          IN  <<addr, IF addr < PARAM_STORE_SIZE THEN buf[addr]
                      ELSE oob[addr - PARAM_STORE_SIZE]>>
     ELSE LET addr == PARAM_STORE_SIZE - ChkSize + (k - FloatSize - 1)
          IN  <<addr, buf[addr]>>]

\* param_buf after the parameter branch of TelemUpdate
UpdateImage(buf, idx, v) ==
  StoreChecksum(MemcpyFloat(buf, HeaderLen + idx * FloatSize, v))

\* a record is valid iff header and checksum match
RecordValid(dev) == LoadClass(LoadBuf(dev)) = "Valid"

\* one bit of one byte inverted
FlipBit(b, k) == IF (b \div Pow2(k)) % 2 = 1 THEN b - Pow2(k) ELSE b + Pow2(k)

(* ------------------------------ state ---------------------------------- *)
VARIABLES
  pc,            \* "boot", "init_done" (TelemInit returned), "running"
  eeprom,        \* the storage device
  param_buf,     \* the in-memory record image
  param,         \* ptr->param, the runtime parameter array
  telem_params,  \* the parameter table inside telem_
  telem_pushes,  \* calls of telem_.params() since boot
  param_idx_,    \* the index reported by telem_.updated_param()
  msgs,          \* events emitted by TelemInit
  wlog,          \* EEPROM.write calls of the last operation, in order
  flip,          \* offset of the byte hit by a bit flip since the last boot, or -1
  oob,           \* an index >= NUM_TELEM_PARAMS has been applied since boot
  torn           \* <<array before, array after>> of the update that power
                 \* was lost in before this boot, or <<>>

vars == <<pc, eeprom, param_buf, param, telem_params, telem_pushes,
          param_idx_, msgs, wlog, flip, oob, torn>>

\* a device holding header ++ encoded array ++ checksum
ValidDevice(arr) ==
  LET raw == [i \in 0..(EepromLen - 1) |->
                IF i < HeaderLen THEN PARAM_STORE_HEADER[i + 1]
                ELSE IF i < DataLen
                     THEN FloatBytes(arr[(i - HeaderLen) \div FloatSize])[(i - HeaderLen) % FloatSize]
                     ELSE 255]
      img == StoreChecksum(LoadBuf(raw))
  IN  [i \in 0..(EepromLen - 1) |-> IF i < PARAM_STORE_SIZE THEN img[i] ELSE 255]

\* device contents at first power-up
InitDevices ==
  {[i \in 0..(EepromLen - 1) |-> 255], [i \in 0..(EepromLen - 1) |-> 0],
   [i \in 0..(EepromLen - 1) |-> IF i < HeaderLen THEN PARAM_STORE_HEADER[i + 1] ELSE 255]}
  \cup {ValidDevice(a) : a \in ArrSet}

ZeroBuf == [i \in 0..(PARAM_STORE_SIZE - 1) |-> 0]

Init ==
  /\ pc = "boot"
  /\ eeprom \in InitDevices
  /\ param_buf = ZeroBuf
  /\ param \in StartArrs
  /\ telem_params = ZeroArr
  /\ telem_pushes = 0
  /\ param_idx_ = 0
  /\ msgs = <<>>
  /\ wlog = <<>>
  /\ flip = -1
  /\ oob = FALSE
  /\ torn = <<>>

(* ----------------------------- actions --------------------------------- *)
TelemInit ==
  /\ pc = "boot"
  /\ LET buf == LoadBuf(eeprom) IN
       /\ param_buf' = InitImage(buf)
       /\ wlog' = InitWrites(buf)
       /\ eeprom' = ApplyWrites(eeprom, wlog')
       /\ msgs' = InitMsgs(buf)
       /\ param' = InitParam(buf, param)
       /\ IF LoadClass(buf) = "Valid"
          THEN /\ telem_params' = param'
               /\ telem_pushes' = telem_pushes + 1
          ELSE UNCHANGED <<telem_params, telem_pushes>>
  /\ pc' = "init_done"
  /\ UNCHANGED <<param_idx_, flip, oob, torn>>

\* variant of TelemUpdateNone: the test of the index is missing, the checksum
\* bytes are written although nothing changed
TelemUpdateNoneWrites(idx) ==
  /\ pc \in {"init_done", "running"}
  /\ idx < 0
  /\ pc' = "running"
  /\ param_idx_' = idx
  /\ wlog' = <<<<PARAM_STORE_SIZE - 2, param_buf[PARAM_STORE_SIZE - 2]>>,
               <<PARAM_STORE_SIZE - 1, param_buf[PARAM_STORE_SIZE - 1]>>>>
  /\ eeprom' = ApplyWrites(eeprom, wlog')
  /\ torn' = <<>>
  /\ UNCHANGED <<param_buf, param, telem_params, telem_pushes, msgs, flip, oob>>

\* a cycle in which telem_.updated_param() is negative
TelemUpdateNone(idx) ==
  /\ pc \in {"init_done", "running"}
  /\ idx < 0
  /\ pc' = "running"
  /\ param_idx_' = idx
  /\ wlog' = <<>>
  /\ torn' = <<>>
  /\ UNCHANGED <<eeprom, param_buf, param, telem_params, telem_pushes, msgs, flip, oob>>

\* a cycle in which the link received a new value for parameter idx
TelemUpdateParam(idx, val) ==
  /\ pc \in {"init_done", "running"}
  /\ idx \in Params
  /\ pc' = "running"
  /\ param_idx_' = idx
  /\ telem_params' = [telem_params EXCEPT ![idx] = val]
  /\ param' = [param EXCEPT ![idx] = val]
  /\ param_buf' = UpdateImage(param_buf, idx, param'[idx])
  /\ wlog' = UpdateWrites(param_buf', idx, <<>>)
  /\ eeprom' = ApplyWrites(eeprom, wlog')
  /\ torn' = <<>>
  /\ UNCHANGED <<telem_pushes, msgs, flip, oob>>

\* a cycle in which the link reports an index behind the table: the reads of
\* telem_.param(idx) and of param_buf behind its end, and the store into
\* ptr->param[idx], are out of bounds; val is what the table read yields, and
\* the bytes behind param_buf read back either as just copied or as junk
TelemUpdateOob(idx, val, junk) ==
  /\ pc \in {"init_done", "running"}
  /\ idx = NUM_TELEM_PARAMS
  /\ pc' = "running"
  /\ param_idx_' = idx
  /\ oob' = TRUE
  /\ param_buf' = UpdateImage(param_buf, idx, val)
  /\ LET behind == [k \in 0..(FloatSize - ChkSize - 1) |->
                      IF junk THEN 0 ELSE FloatBytes(val)[k + ChkSize]]
     IN  wlog' = UpdateWrites(param_buf', idx, behind)
  /\ eeprom' = ApplyWrites(eeprom, wlog')
  /\ torn' = <<>>
  /\ UNCHANGED <<param, telem_params, telem_pushes, msgs, flip>>

TelemUpdate ==
  \/ \E idx \in (0 - NegIdx)..(-1) : TelemUpdateNone(idx)
  \/ \E idx \in Params, val \in Vals : TelemUpdateParam(idx, val)
  \/ \E val \in Vals, junk \in BOOLEAN : TelemUpdateOob(NUM_TELEM_PARAMS, val, junk)

\* power is removed and restored: RAM starts over, the device keeps its bytes
PowerCycle ==
  /\ pc \in {"init_done", "running"}
  /\ pc' = "boot"
  /\ param_buf' = ZeroBuf
  /\ param' \in StartArrs
  /\ telem_params' = ZeroArr
  /\ telem_pushes' = 0
  /\ param_idx_' = 0
  /\ msgs' = <<>>
  /\ wlog' = <<>>
  /\ flip' = -1
  /\ oob' = FALSE
  /\ torn' = <<>>
  /\ UNCHANGED eeprom

\* power is lost inside the parameter branch of TelemUpdate, on a store whose
\* array agrees with its valid record, after the first k of the 6
\* EEPROM.write calls; RAM starts over, the device keeps the bytes written
PowerLossInUpdate(idx, val, k) ==
  /\ pc \in {"init_done", "running"}
  /\ ~oob
  /\ idx \in Params
  /\ k \in 0..(FloatSize + ChkSize - 1)
  /\ RecordValid(eeprom)
  /\ param = DecodeParams(eeprom)
  /\ wlog' = SubSeq(UpdateWrites(UpdateImage(param_buf, idx, val), idx, <<>>), 1, k)
  /\ eeprom' = ApplyWrites(eeprom, wlog')
  /\ torn' = <<param, [param EXCEPT ![idx] = val]>>
  /\ pc' = "boot"
  /\ param_buf' = ZeroBuf
  /\ param' \in StartArrs
  /\ telem_params' = ZeroArr
  /\ telem_pushes' = 0
  /\ param_idx_' = 0
  /\ msgs' = <<>>
  /\ flip' = -1
  /\ oob' = FALSE

\* external corruption while powered down: one bit of a valid record flips
BitFlip ==
  /\ pc = "boot"
  /\ flip = -1
  /\ torn = <<>>
  /\ RecordValid(eeprom)
  /\ \E off \in 0..(PARAM_STORE_SIZE - 1), k \in 0..7 :
       /\ eeprom' = [eeprom EXCEPT ![off] = FlipBit(eeprom[off], k)]
       /\ flip' = off
  /\ UNCHANGED <<pc, param_buf, param, telem_params, telem_pushes,
                 param_idx_, msgs, wlog, oob, torn>>

Next ==
  \/ TelemInit
  \/ TelemUpdate
  \/ PowerCycle
  \/ BitFlip

Spec == Init /\ [][Next]_vars

\* the store with power losses inside an update instead of bit flips
NextTorn ==
  \/ TelemInit
  \/ TelemUpdate
  \/ PowerCycle
  \/ \E idx \in Params, val \in Vals, k \in 0..(FloatSize + ChkSize - 1) :
       PowerLossInUpdate(idx, val, k)

SpecTorn == Init /\ [][NextTorn]_vars

TypeOK ==
  /\ pc \in {"boot", "init_done", "running"}
  /\ eeprom \in [0..(EepromLen - 1) -> Byte]
  /\ param_buf \in [0..(PARAM_STORE_SIZE - 1) -> Byte]
  /\ param \in [Params -> Nat]
  /\ telem_params \in [Params -> Nat]
  /\ telem_pushes \in 0..1
  /\ param_idx_ \in (0 - NegIdx)..NUM_TELEM_PARAMS
  /\ flip \in -1..(PARAM_STORE_SIZE - 1)
  /\ oob \in BOOLEAN
  /\ torn = <<>> \/ (Len(torn) = 2 /\ torn[1] \in [Params -> Nat])

(* ------------------------- claim vocabulary ---------------------------- *)
\* the stored record as a load would read it
Stored == LoadBuf(eeprom)
StoredNext == LoadBuf(eeprom')

\* header ++ 4N zero bytes ++ checksum(header ++ zeros)
FreshRecord ==
  LET zeros == [i \in 0..(PARAM_STORE_SIZE - 1) |->
                  IF i < HeaderLen THEN PARAM_STORE_HEADER[i + 1] ELSE 0]
      chk == Fletcher16(zeros, DataLen)
  IN  [zeros EXCEPT ![DataLen] = chk \div 256, ![DataLen + 1] = chk % 256]

HeaderOK(buf) == \A k \in 1..HeaderLen : buf[k - 1] = PARAM_STORE_HEADER[k]
ChecksumOK(buf) == buf[DataLen] * 256 + buf[DataLen + 1] = Fletcher16(buf, DataLen)

\* a step that is a completed TelemInit / TelemUpdate
InitStep == pc = "boot" /\ pc' = "init_done"
UpdateStep == pc # "boot" /\ pc' = "running"

MsgUninitialized == <<"InfoNotInitialized", "InfoDone">>
MsgCorrupted == <<"WarningCorrupted", "InfoDone">>

\* addresses of the value bytes of parameter i, and of the checksum
ValueAddrs(i) == (HeaderLen + FloatSize * i)..(HeaderLen + FloatSize * i + FloatSize - 1)
ChkAddrs == {DataLen, DataLen + 1}

(* ------------------------------ claims --------------------------------- *)

\* C1: after TelemInit has completed (any branch) and after every completed
\* parameter update, every runtime array entry param[i] equals the float
\* decoded from the 4 persisted bytes at offset 3+4i, whatever the device
\* and the array held before.
C1_ArrayMatchesRecord ==
  (pc # "boot" /\ ~oob) =>
    \A i \in Params : param[i] = BytesFloat(eeprom, HeaderLen + FloatSize * i)

\* C2: once TelemInit has completed, after any sequence of parameter updates
\* with 0 <= index < N the persisted record is valid: stored header = magic
\* bytes, stored checksum = checksum over the stored header and parameter
\* bytes, and a load at that point takes the Valid branch.
C2_RecordStaysValid ==
  (pc # "boot" /\ ~oob) =>
    /\ HeaderOK(Stored)
    /\ ChecksumOK(Stored)
    /\ LoadClass(Stored) = "Valid"

C2_Witness ==
  /\ pc = "running"
  /\ ~oob
  /\ param_idx_ \in Params
  /\ Len(wlog) = FloatSize + ChkSize
  /\ DecodeParams(Stored) # ZeroArr
  /\ LoadClass(Stored) = "Valid"

\* C3: from a valid record that has been loaded (array = decoded record), a
\* parameter update (index, value) with 0 <= index < N followed by a fresh
\* load yields the prior array with position index replaced by value, for
\* every content the caller's array may have before that load.
C3_UpdateThenLoad ==
  [][(UpdateStep /\ param_idx_' \in Params /\ ~oob
        /\ HeaderOK(Stored) /\ ChecksumOK(Stored)
        /\ param = DecodeParams(Stored))
      => /\ LoadClass(StoredNext) = "Valid"
         /\ \A a \in StartArrs :
              InitParam(StoredNext, a) =
                [param EXCEPT ![param_idx_'] = telem_params'[param_idx_']]]_vars

C3_Witness ==
  /\ pc = "running"
  /\ ~oob
  /\ param_idx_ = 1
  /\ param = DecodeParams(Stored)
  /\ param[1] = 1080033280
  /\ param[0] = 16909311
  /\ InitParam(Stored, ZeroArr) = param

\* C4: a cycle in which the link reports an index that is negative or >= N
\* writes no byte to the device and leaves the in-memory record image and
\* the runtime array unchanged.
C4_OutOfRangeRejected ==
  [][(UpdateStep /\ (param_idx_' < 0 \/ param_idx_' >= NUM_TELEM_PARAMS))
      => /\ wlog' = <<>>
         /\ eeprom' = eeprom
         /\ param_buf' = param_buf
         /\ param' = param]_vars

\* C5: a parameter update with 0 <= index < N issues exactly 6 device
\* writes, to the 4 value bytes at 3+4*index .. 3+4*index+3 and to the 2
\* checksum bytes; all other device bytes are neither written nor changed.
C5_PartialWrite ==
  [][(UpdateStep /\ param_idx_' \in Params)
      => /\ Len(wlog') = FloatSize + ChkSize
         /\ {wlog'[k][1] : k \in 1..Len(wlog')} = ValueAddrs(param_idx_') \cup ChkAddrs
         /\ \A a \in (0..(EepromLen - 1)) \ (ValueAddrs(param_idx_') \cup ChkAddrs) :
              eeprom'[a] = eeprom[a]]_vars

C5_Witness ==
  /\ pc = "running"
  /\ param_idx_ = 0
  /\ Len(wlog) = FloatSize + ChkSize
  /\ BytesFloat(eeprom, HeaderLen) = 1080033280
  /\ BytesFloat(eeprom, HeaderLen + FloatSize) = 16909311

\* C6: on a device whose first 3 bytes differ from the magic header,
\* TelemInit leaves the device holding header ++ zeros ++ checksum, emits
\* the 'not initialized' event and no corruption warning, and the runtime
\* array is all zeros afterwards.
C6_UninitializedLoad ==
  [][(InitStep /\ ~HeaderOK(Stored))
      => /\ StoredNext = FreshRecord
         /\ msgs' = MsgUninitialized
         /\ param' = ZeroArr]_vars

\* C7: on a device whose header matches but whose stored checksum differs
\* from the computed one, TelemInit emits the corruption warning, the
\* runtime array is all zeros afterwards, and the device holds the same
\* fresh-reset bytes as after the uninitialized case.
C7_CorruptedLoad ==
  [][(InitStep /\ HeaderOK(Stored) /\ ~ChecksumOK(Stored))
      => /\ msgs' = MsgCorrupted
         /\ param' = ZeroArr
         /\ StoredNext = FreshRecord]_vars

\* C8: when the stored header and checksum both match, TelemInit writes
\* nothing to the device, emits no event, and sets the runtime array to the
\* parameters decoded from the stored bytes.
C8_ValidLoad ==
  [][(InitStep /\ HeaderOK(Stored) /\ ChecksumOK(Stored))
      => /\ wlog' = <<>>
         /\ eeprom' = eeprom
         /\ msgs' = <<>>
         /\ \A i \in Params :
              param'[i] = BytesFloat(eeprom, HeaderLen + FloatSize * i)]_vars

C8_Witness ==
  /\ pc = "init_done"
  /\ msgs = <<>>
  /\ wlog = <<>>
  /\ param[0] = 1080033280
  /\ param[1] = 16909311
  /\ param = DecodeParams(Stored)

\* C9: on every branch of TelemInit, once it has completed the link's
\* parameter table has been set exactly once, to the resulting runtime array.
C9_StartupPush ==
  (pc = "init_done") => (telem_pushes = 1 /\ telem_params = param)

\* C10 (as stated): after a single bit flip in any stored header or
\* parameter byte of a valid record, the next TelemInit takes the Corrupted
\* branch (warning, reset), never Valid and never Uninitialized.
C10_FlipIsCorrupted ==
  (pc = "init_done" /\ flip \in 0..(DataLen - 1)) => msgs = MsgCorrupted

\* C10 (amended): a single bit flip in a stored parameter byte makes the
\* next TelemInit take the Corrupted branch, a flip in a header byte makes it
\* take the Uninitialized branch; in both the device is reset to the fresh
\* record and the load is never classified Valid.
C10_FlipIsDetected ==
  (pc = "init_done" /\ flip \in 0..(DataLen - 1)) =>
    /\ flip >= HeaderLen => msgs = MsgCorrupted
    /\ flip < HeaderLen => msgs = MsgUninitialized
    /\ msgs # <<>>
    /\ Stored = FreshRecord

C10_Witness ==
  /\ pc = "init_done"
  /\ flip \in HeaderLen..(DataLen - 1)
  /\ msgs = MsgCorrupted
  /\ Stored = FreshRecord

\* C11: the bytes the recovery path (uninitialized or corrupted branch of
\* TelemInit) leaves in the record do not depend on what the device held
\* before: they are always the fixed header, all-zero parameters and the
\* checksum of these, and running the recovery on them again yields them again.
C11_IdempotentReset ==
  [][(InitStep /\ (~HeaderOK(Stored) \/ ~ChecksumOK(Stored)))
      => /\ \A i \in 0..(PARAM_STORE_SIZE - 1) : eeprom'[i] = FreshRecord[i]
         /\ ResetBuf(StoredNext) = StoredNext
         /\ ApplyWrites(eeprom', FullWrites(ResetBuf(StoredNext))) = eeprom'
         /\ HeaderOK(StoredNext) /\ ChecksumOK(StoredNext)
         /\ DecodeParams(StoredNext) = ZeroArr]_vars

C11_Witness ==
  /\ pc = "init_done"
  /\ msgs = MsgCorrupted
  /\ flip \in HeaderLen..(DataLen - 1)
  /\ Len(wlog) = PARAM_STORE_SIZE
  /\ \A i \in 0..(PARAM_STORE_SIZE - 1) : eeprom[i] = FreshRecord[i]

\* C12: one TelemUpdate cycle applies at most one remote update: a cycle
\* with no pending event (negative index) issues no device write and leaves
\* the device, the runtime array and the in-memory image unchanged; a cycle
\* with an in-range event changes no array entry other than the reported
\* one and issues the writes of exactly one update.
C12_OneUpdatePerCycle ==
  [][UpdateStep
      => /\ param_idx_' < 0 =>
              /\ wlog' = <<>>
              /\ eeprom' = eeprom
              /\ param' = param
              /\ param_buf' = param_buf
         /\ param_idx_' \in Params =>
              /\ \A j \in Params \ {param_idx_'} :
                   /\ param'[j] = param[j]
                   /\ \A a \in ValueAddrs(j) :
                        param_buf'[a] = param_buf[a] /\ eeprom'[a] = eeprom[a]
              /\ param'[param_idx_'] = telem_params'[param_idx_']
              /\ Len(wlog') = FloatSize + ChkSize]_vars

C12_Witness ==
  /\ pc = "running"
  /\ param_idx_ < 0
  /\ wlog = <<>>
  /\ msgs = <<>>
  /\ param # ZeroArr
  /\ param = DecodeParams(Stored)

\* C13: the 16-bit checksum is stored high byte first at offsets 3+4N and
\* 3+4N+1 on every write path, the load reads it back in the same order,
\* and for every 16-bit value c the two bytes written for c read back as c.
C13_ChecksumBigEndian ==
  /\ (pc # "boot" /\ ~oob) =>
       LET c == Fletcher16(Stored, DataLen) IN
         /\ eeprom[DataLen] = c \div 256
         /\ eeprom[DataLen + 1] = c % 256
         /\ ChkRead(Stored) = c
         /\ wlog # <<>> =>
              /\ wlog[Len(wlog) - 1] = <<DataLen, c \div 256>>
              /\ wlog[Len(wlog)] = <<DataLen + 1, c % 256>>
  /\ (pc = "boot" /\ eeprom \in InitDevices /\ param = ZeroArr) =>
       \A c \in 0..65535 :
         /\ ChkBuf(c) = <<c \div 256, c % 256>>
         /\ ChkRead([ZeroBuf EXCEPT ![PARAM_STORE_SIZE - 2] = ChkBuf(c)[1],
                                    ![PARAM_STORE_SIZE - 1] = ChkBuf(c)[2]]) = c

C13_Witness ==
  /\ pc = "running"
  /\ ~oob
  /\ param_idx_ \in Params
  /\ Len(wlog) = FloatSize + ChkSize
  /\ eeprom[DataLen] # eeprom[DataLen + 1]
  /\ eeprom[DataLen] * 256 + eeprom[DataLen + 1] = Fletcher16(Stored, DataLen)

\* C14: in a parameter update the array entry is set first, the checksum is
\* then computed over the image that already holds the new value, and only
\* then the device is written: every byte written is taken from that final
\* image, the 4 value bytes go first in ascending order and the 2 checksum
\* bytes last.
C14_WriteOrder ==
  [][(UpdateStep /\ param_idx_' \in Params)
      => /\ BytesFloat(param_buf', HeaderLen + FloatSize * param_idx_') = param'[param_idx_']
         /\ param_buf'[DataLen] * 256 + param_buf'[DataLen + 1] = Fletcher16(param_buf', DataLen)
         /\ Len(wlog') = FloatSize + ChkSize
         /\ \A k \in 1..Len(wlog') : wlog'[k][2] = param_buf'[wlog'[k][1]]
         /\ \A k \in 1..FloatSize :
              wlog'[k][1] = HeaderLen + FloatSize * param_idx_' + (k - 1)
         /\ wlog'[FloatSize + 1][1] = DataLen
         /\ wlog'[FloatSize + 2][1] = DataLen + 1]_vars

C14_Witness ==
  /\ pc = "running"
  /\ param_idx_ = 1
  /\ param[1] = 16909311
  /\ Len(wlog) = FloatSize + ChkSize
  /\ wlog[1] = <<HeaderLen + FloatSize, 255>>
  /\ wlog[FloatSize + ChkSize][1] = DataLen + 1

\* C15: after TelemInit has completed and after every completed in-range
\* parameter update, the in-memory record image param_buf equals the device
\* content byte for byte over the whole record [0, 3+4N+2).
C15_RamMirror ==
  (pc # "boot" /\ ~oob) =>
    \A i \in 0..(PARAM_STORE_SIZE - 1) : param_buf[i] = eeprom[i]

C15_Witness ==
  /\ pc = "running"
  /\ ~oob
  /\ param_idx_ \in Params
  /\ param_buf = Stored
  /\ BytesFloat(param_buf, HeaderLen) = 16909311
  /\ msgs = MsgUninitialized

\* C16: when power is lost after a proper prefix of the 6 byte writes of a
\* parameter update on a valid record, the next TelemInit either resets the
\* record to zeros or accepts it as Valid with the array before the update or
\* the array after it; it never accepts as Valid a record whose updated
\* parameter holds a mix of old and new bytes.
C16_TornWriteSafe ==
  (pc = "init_done" /\ torn # <<>>) =>
    /\ msgs # <<>> => DecodeParams(Stored) = ZeroArr
    /\ msgs = <<>> => param \in {torn[1], torn[2]}
    /\ msgs = <<>> => \A i \in Params : param[i] \in {torn[1][i], torn[2][i]}

====
